---- MODULE Spec2Model ----
(***************************************************************************)
(* Model of the XPort minimal bootstrap loader (xport-bootstrap.c).        *)
(*                                                                         *)
(* The program state is the filesystem.  A filesystem is a function from   *)
(* the absolute paths that exist (sequences of component names, <<>> is    *)
(* the root directory) to nodes: directories, regular files and symbolic   *)
(* links.  The system calls the loader uses (access, mkdir, chmod, unlink, *)
(* symlink, open/fopen for writing) are operators on filesystems; the      *)
(* loader's functions are operators built from them the way the C code     *)
(* builds them; the JNI entry points are actions.                          *)
(***************************************************************************)
EXTENDS Integers, Sequences, FiniteSets, TLC

VARIABLES
    fs,       \* the filesystem
    fs0,      \* the filesystem at entry of the operation under way (history)
    fs1,      \* the filesystem after the first of two successive calls (history)
    pc,       \* position of the running invocation
    ret,      \* value returned by the last operation ("none" before any)
    steps,    \* the pipeline functions called by the current run, with results and logs
    abi,      \* the target macro the compiler predefines for this build
    asset,    \* the packaged asset xport-bootstrap-<arch>.zip
    mgr,      \* whether AAssetManager_fromJava yields a handle for this call
    umask,    \* the process file mode creation mask
    faults,   \* the environment failures injected so far into the current operation
    nfaults,  \* the number of environment failures injected in this behaviour
    runs,     \* the number of install invocations made
    status,   \* the value returned by the last status query ("none" before any)
    info,     \* the installed field of the last diagnostic query ("none" before any)
    arg,      \* the path argument of the helper under test
    nopen     \* the number of asset handles and file descriptors currently open

vars == <<fs, fs0, fs1, pc, ret, steps, abi, asset, mgr, umask, faults,
          nfaults, runs, status, info, arg, nopen>>

----------------------------------------------------------------------------
(* Bounds *)

MaxFaults == 2      \* environment failures injected per behaviour
MaxCommands == 3    \* entries of the symlink manifest that are modelled
MaxPathLen == 2     \* components of the paths given to directory scaffolding
MaxPre == 2         \* pre-existing entries placed in an initial filesystem
MaxLinkDepth == 4   \* symbolic links followed by one path resolution (ELOOP beyond)
AssetChunks == 2    \* buffers of BUFFER_SIZE bytes the packaged archive fills

----------------------------------------------------------------------------
(* Permission modes (octal values written in decimal) *)

Mode0755 == 493
Mode0700 == 448
Mode0644 == 420
Mode0666 == 438

RECURSIVE BitAndNot(_, _, _)
\* mode & ~mask over the low n bits
BitAndNot(mode, mask, n) ==
    IF n = 0 THEN 0
    ELSE (IF mode % 2 = 1 /\ mask % 2 = 0 THEN 1 ELSE 0)
         + 2 * BitAndNot(mode \div 2, mask \div 2, n - 1)

ApplyUmask(mode) == BitAndNot(mode, umask, 9)

----------------------------------------------------------------------------
(* Filesystem *)

DirNode(mode) == [kind |-> "dir", mode |-> mode, target |-> <<>>, data |-> ""]
FileNode(mode, data) == [kind |-> "file", mode |-> mode, target |-> <<>>, data |-> data]
LinkNode(target) == [kind |-> "link", mode |-> 511, target |-> target, data |-> ""]

RootFS == [p \in {<<>>} |-> DirNode(Mode0755)]

Kind(f, p) == IF p \in DOMAIN f THEN f[p].kind ELSE "none"

Put(f, p, node) == [q \in DOMAIN f \cup {p} |-> IF q = p THEN node ELSE f[q]]

Remove(f, p) == [q \in DOMAIN f \ {p} |-> f[q]]

Prefixes(p) == {SubSeq(p, 1, i) : i \in 1..Len(p)}

Parent(p) == SubSeq(p, 1, Len(p) - 1)

Dirs(f) == {p \in DOMAIN f : f[p].kind = "dir"}

RECURSIVE Walk(_, _, _, _, _)
\* Kernel path resolution from directory cur along the components rest.
\* Symbolic links are relative to the directory that holds them; the last
\* component is followed only when follow is TRUE.  The result names the
\* node reached, which need not exist when it is the last component.
Walk(f, cur, rest, follow, depth) ==
    IF rest = <<>> THEN [err |-> "OK", path |-> cur]
    ELSE IF Kind(f, cur) # "dir"
    THEN [err |-> IF Kind(f, cur) = "none" THEN "ENOENT" ELSE "ENOTDIR", path |-> cur]
    ELSE LET p == Append(cur, Head(rest)) IN
         IF Kind(f, p) = "link" /\ (Len(rest) > 1 \/ follow)
         THEN IF depth = 0 THEN [err |-> "ELOOP", path |-> p]
              ELSE Walk(f, cur, f[p].target \o Tail(rest), follow, depth - 1)
         ELSE Walk(f, p, Tail(rest), follow, depth)

Resolve(f, path, follow) == Walk(f, <<>>, path, follow, MaxLinkDepth)

\* access(path, F_OK) == 0
Access(f, path) ==
    LET r == Resolve(f, path, TRUE) IN r.err = "OK" /\ Kind(f, r.path) # "none"

\* stat(path): the node a path resolves to, following symbolic links
Stat(f, path) ==
    LET r == Resolve(f, path, TRUE) IN
    IF r.err = "OK" /\ Kind(f, r.path) # "none" THEN f[r.path]
    ELSE [kind |-> "none", mode |-> 0, target |-> <<>>, data |-> ""]

\* lstat(path): the node at a path, not following a final symbolic link
LStat(f, path) ==
    LET r == Resolve(f, path, FALSE) IN
    IF r.err = "OK" /\ Kind(f, r.path) # "none" THEN f[r.path]
    ELSE [kind |-> "none", mode |-> 0, target |-> <<>>, data |-> ""]

\* mkdir(path, mode); fail: the environment refuses the creation (ENOSPC)
Mkdir(f, path, mode, fail) ==
    LET r == Resolve(f, path, FALSE) IN
    IF r.err # "OK" THEN [ret |-> -1, errno |-> r.err, fs |-> f]
    ELSE IF Kind(f, r.path) # "none" THEN [ret |-> -1, errno |-> "EEXIST", fs |-> f]
    ELSE IF fail THEN [ret |-> -1, errno |-> "ENOSPC", fs |-> f]
    ELSE [ret |-> 0, errno |-> "OK", fs |-> Put(f, r.path, DirNode(ApplyUmask(mode)))]

\* chmod(path, mode); fail: the environment refuses the change (EPERM)
Chmod(f, path, mode, fail) ==
    LET r == Resolve(f, path, TRUE) IN
    IF r.err # "OK" THEN [ret |-> -1, errno |-> r.err, fs |-> f]
    ELSE IF Kind(f, r.path) = "none" THEN [ret |-> -1, errno |-> "ENOENT", fs |-> f]
    ELSE IF fail THEN [ret |-> -1, errno |-> "EPERM", fs |-> f]
    ELSE [ret |-> 0, errno |-> "OK", fs |-> [f EXCEPT ![r.path].mode = mode]]

\* unlink(path)
Unlink(f, path) ==
    LET r == Resolve(f, path, FALSE) IN
    IF r.err # "OK" THEN [ret |-> -1, errno |-> r.err, fs |-> f]
    ELSE IF Kind(f, r.path) = "none" THEN [ret |-> -1, errno |-> "ENOENT", fs |-> f]
    ELSE IF Kind(f, r.path) = "dir" THEN [ret |-> -1, errno |-> "EISDIR", fs |-> f]
    ELSE [ret |-> 0, errno |-> "OK", fs |-> Remove(f, r.path)]

\* symlink(target, path); fail: the environment refuses the creation (EACCES)
Symlink(f, target, path, fail) ==
    LET r == Resolve(f, path, FALSE) IN
    IF r.err # "OK" THEN [ret |-> -1, errno |-> r.err, fs |-> f]
    ELSE IF Kind(f, r.path) # "none" THEN [ret |-> -1, errno |-> "EEXIST", fs |-> f]
    ELSE IF fail THEN [ret |-> -1, errno |-> "EACCES", fs |-> f]
    ELSE [ret |-> 0, errno |-> "OK", fs |-> Put(f, r.path, LinkNode(target))]

\* open(path, O_CREAT | O_WRONLY | O_TRUNC, mode) and fopen(path, "w"):
\* the file is created or truncated; fail: the environment refuses (EACCES)
OpenTrunc(f, path, mode, fail) ==
    LET r == Resolve(f, path, TRUE) IN
    IF r.err # "OK" THEN [ret |-> -1, errno |-> r.err, path |-> r.path, fs |-> f]
    ELSE IF Kind(f, r.path) = "dir"
    THEN [ret |-> -1, errno |-> "EISDIR", path |-> r.path, fs |-> f]
    ELSE IF fail THEN [ret |-> -1, errno |-> "EACCES", path |-> r.path, fs |-> f]
    ELSE IF Kind(f, r.path) = "file"
    THEN [ret |-> 0, errno |-> "OK", path |-> r.path,
          fs |-> [f EXCEPT ![r.path].data = ""]]
    ELSE [ret |-> 0, errno |-> "OK", path |-> r.path,
          fs |-> Put(f, r.path, FileNode(ApplyUmask(mode), ""))]

\* write(fd, ...) / fprintf(stream, ...): the content of an open file becomes data
WriteData(f, path, data) == [f EXCEPT ![path].data = data]

----------------------------------------------------------------------------
(* Compile-time configuration and tables *)

FILES == <<"data", "data", "com.xport.terminal", "files">>
BOOTSTRAP_PREFIX_DIR == FILES \o <<"usr">>
BOOTSTRAP_HOME_DIR == FILES \o <<"home">>
BOOTSTRAP_TMP_DIR == FILES \o <<"tmp">>

Targets == {"__aarch64__", "__arm__", "__x86_64__", "__i386__", "other"}

get_android_architecture ==
    IF abi = "__aarch64__" THEN "arm64-v8a"
    ELSE IF abi = "__arm__" THEN "armeabi-v7a"
    ELSE IF abi = "__x86_64__" THEN "x86_64"
    ELSE IF abi = "__i386__" THEN "x86"
    ELSE "unknown"

directories ==
    << BOOTSTRAP_PREFIX_DIR,
       BOOTSTRAP_PREFIX_DIR \o <<"bin">>,
       BOOTSTRAP_PREFIX_DIR \o <<"lib">>,
       BOOTSTRAP_PREFIX_DIR \o <<"etc">>,
       BOOTSTRAP_PREFIX_DIR \o <<"etc", "ssh">>,
       BOOTSTRAP_PREFIX_DIR \o <<"usr">>,
       BOOTSTRAP_PREFIX_DIR \o <<"usr", "share">>,
       BOOTSTRAP_PREFIX_DIR \o <<"var">>,
       BOOTSTRAP_PREFIX_DIR \o <<"var", "run">>,
       BOOTSTRAP_PREFIX_DIR \o <<"var", "empty">>,
       BOOTSTRAP_HOME_DIR,
       BOOTSTRAP_HOME_DIR \o <<".ssh">>,
       BOOTSTRAP_TMP_DIR >>

SSH_DIR == BOOTSTRAP_HOME_DIR \o <<".ssh">>
VAR_EMPTY_DIR == BOOTSTRAP_PREFIX_DIR \o <<"var", "empty">>
BIN_DIR == BOOTSTRAP_PREFIX_DIR \o <<"bin">>

binaries ==
    << BIN_DIR \o <<"busybox">>,
       BIN_DIR \o <<"ssh">>,
       BIN_DIR \o <<"ssh-keygen">>,
       BIN_DIR \o <<"sh">>,
       BIN_DIR \o <<"ash">> >>

busybox_path == BIN_DIR \o <<"busybox">>

AllCommands ==
    << "sh", "ash", "ls", "cat", "cp", "mv", "rm", "mkdir", "chmod", "chown",
       "touch", "echo", "pwd", "test", "[", "which", "whoami", "id", "groups",
       "tar", "gzip", "gunzip", "unzip", "wget", "grep", "find", "sort",
       "head", "tail", "cut", "sed", "awk", "wc", "uniq", "basename", "dirname",
       "env", "printenv", "date", "sleep", "kill", "ps", "mount", "umount",
       "clear", "reset", "tty", "stty", "stat", "readlink", "realpath" >>

\* The manifest entries that are modelled: "sh" and "ash", which the Binary
\* Manifest names too, and the first of the entries no other table names.
commands == SubSeq(AllCommands, 1, MaxCommands)

profile_path == BOOTSTRAP_PREFIX_DIR \o <<"etc", "profile">>
ssh_config_path == BOOTSTRAP_PREFIX_DIR \o <<"etc", "ssh", "ssh_config">>

key_files ==
    << BIN_DIR \o <<"busybox">>,
       BIN_DIR \o <<"ssh">>,
       BIN_DIR \o <<"ssh-keygen">>,
       BOOTSTRAP_PREFIX_DIR \o <<"etc", "profile">> >>

temp_zip_path == BOOTSTRAP_TMP_DIR \o <<"bootstrap.zip">>

----------------------------------------------------------------------------
(* The loader's functions.  bad is the set of call sites <<call, where>> at *)
(* which the environment makes the call fail during this execution.        *)

RECURSIVE MkdirLoopStrict(_, _, _, _, _)
\* MkdirLoop without the test of errno: an existing entry is a failure
MkdirLoopStrict(f, path, i, mode, bad) ==
    IF i > Len(path) THEN [ret |-> 0, fs |-> f]
    ELSE LET sub == SubSeq(path, 1, i)
             r == Mkdir(f, sub, mode, <<"mkdir", sub>> \in bad)
         IN  IF r.ret # 0
             THEN [ret |-> -1, fs |-> r.fs]
             ELSE MkdirLoopStrict(r.fs, path, i + 1, mode, bad)

RECURSIVE MkdirLoop(_, _, _, _, _)
\* the while loop of create_directory_recursive; i counts the components
\* of path_copy that the current iteration passes to mkdir
MkdirLoop(f, path, i, mode, bad) ==
    IF i > Len(path) THEN [ret |-> 0, fs |-> f]
    ELSE LET sub == SubSeq(path, 1, i)
             r == Mkdir(f, sub, mode, <<"mkdir", sub>> \in bad)
         IN  IF r.ret # 0 /\ r.errno # "EEXIST"
             THEN [ret |-> -1, fs |-> r.fs]
             ELSE MkdirLoop(r.fs, path, i + 1, mode, bad)

create_directory_recursive(f, path, mode, bad) ==
    IF <<"strdup", path>> \in bad THEN [ret |-> -1, fs |-> f]
    ELSE MkdirLoop(f, path, 1, mode, bad)

set_file_permissions(f, path, mode, bad) ==
    LET r == Chmod(f, path, mode, <<"chmod", path>> \in bad) IN
    [ret |-> IF r.ret # 0 THEN -1 ELSE 0, fs |-> r.fs]

RECURSIVE DirectoriesLoop(_, _, _)
DirectoriesLoop(f, i, bad) ==
    IF i > Len(directories) THEN [ret |-> 0, fs |-> f]
    ELSE LET r == create_directory_recursive(f, directories[i], Mode0755, bad) IN
         IF r.ret # 0 THEN [ret |-> -1, fs |-> r.fs]
         ELSE DirectoriesLoop(r.fs, i + 1, bad)

setup_bootstrap_directories(f, bad) ==
    LET d == DirectoriesLoop(f, 1, bad) IN
    IF d.ret # 0 THEN d
    ELSE LET c1 == set_file_permissions(d.fs, SSH_DIR, Mode0700, bad)
             c2 == set_file_permissions(c1.fs, VAR_EMPTY_DIR, Mode0755, bad)
         IN  [ret |-> 0, fs |-> c2.fs]

RECURSIVE BinariesLoopBreak(_, _, _, _)
\* BinariesLoop leaving the loop at the first path that does not exist
BinariesLoopBreak(f, i, bad, log) ==
    IF i > Len(binaries) THEN [ret |-> 0, fs |-> f, log |-> log]
    ELSE IF Access(f, binaries[i])
    THEN LET r == set_file_permissions(f, binaries[i], Mode0755, bad) IN
         BinariesLoopBreak(r.fs, i + 1, bad,
                           Append(log, [item |-> binaries[i], ok |-> r.ret = 0]))
    ELSE [ret |-> 0, fs |-> f, log |-> log]

RECURSIVE BinariesLoop(_, _, _, _)
BinariesLoop(f, i, bad, log) ==
    IF i > Len(binaries) THEN [ret |-> 0, fs |-> f, log |-> log]
    ELSE IF Access(f, binaries[i])
    THEN LET r == set_file_permissions(f, binaries[i], Mode0755, bad) IN
         BinariesLoop(r.fs, i + 1, bad,
                      Append(log, [item |-> binaries[i], ok |-> r.ret = 0]))
    ELSE BinariesLoop(f, i + 1, bad, log)

setup_binary_permissions(f, bad) == BinariesLoop(f, 1, bad, <<>>)

RECURSIVE SymlinksLoopAbort(_, _, _, _)
\* SymlinksLoop giving up at the first symlink call that fails
SymlinksLoopAbort(f, i, bad, log) ==
    IF i > Len(commands) THEN [ret |-> 0, fs |-> f, log |-> log]
    ELSE LET symlink_path == BIN_DIR \o <<commands[i]>>
             u == IF Access(f, symlink_path) THEN Unlink(f, symlink_path).fs ELSE f
             r == Symlink(u, <<"busybox">>, symlink_path,
                          <<"symlink", symlink_path>> \in bad)
         IN  IF r.ret # 0
             THEN [ret |-> -1, fs |-> r.fs,
                   log |-> Append(log, [item |-> symlink_path, ok |-> FALSE])]
             ELSE SymlinksLoopAbort(r.fs, i + 1, bad,
                                    Append(log, [item |-> symlink_path, ok |-> TRUE]))

RECURSIVE SymlinksLoop(_, _, _, _)
SymlinksLoop(f, i, bad, log) ==
    IF i > Len(commands) THEN [ret |-> 0, fs |-> f, log |-> log]
    ELSE LET symlink_path == BIN_DIR \o <<commands[i]>>
             u == IF Access(f, symlink_path) THEN Unlink(f, symlink_path).fs ELSE f
             r == Symlink(u, <<"busybox">>, symlink_path,
                          <<"symlink", symlink_path>> \in bad)
         IN  SymlinksLoop(r.fs, i + 1, bad,
                          Append(log, [item |-> symlink_path, ok |-> r.ret = 0]))

\* setup_busybox_symlinks without the check of the multi-call binary
setup_busybox_symlinks_unchecked(f, bad) == SymlinksLoop(f, 1, bad, <<>>)

setup_busybox_symlinks(f, bad) ==
    IF ~Access(f, busybox_path) THEN [ret |-> -1, fs |-> f, log |-> <<>>]
    ELSE SymlinksLoop(f, 1, bad, <<>>)

\* fopen(path, "w") followed by the fprintf calls and fclose; a failing
\* fprintf (site "fprintf") goes unnoticed and leaves the file incomplete
WriteConfig(f, path, data, bad) ==
    LET o == OpenTrunc(f, path, Mode0666, <<"fopen", path>> \in bad) IN
    IF o.ret # 0 THEN [ok |-> FALSE, fs |-> o.fs]
    ELSE [ok |-> TRUE,
          fs |-> WriteData(o.fs, o.path,
                           IF <<"fprintf", path>> \in bad THEN "partial" ELSE data)]

\* setup_configuration_files writing the profile under etc/ssh
setup_configuration_files_misplaced(f, bad) ==
    LET p == WriteConfig(f, BOOTSTRAP_PREFIX_DIR \o <<"etc", "ssh", "profile">>,
                         "profile", bad)
        s == WriteConfig(p.fs, ssh_config_path, "ssh_config", bad)
    IN  [ret |-> 0, fs |-> s.fs,
         log |-> << [item |-> profile_path, ok |-> p.ok],
                    [item |-> ssh_config_path, ok |-> s.ok] >>]

setup_configuration_files(f, bad) ==
    LET p == WriteConfig(f, profile_path, "profile", bad)
        s == WriteConfig(p.fs, ssh_config_path, "ssh_config", bad)
    IN  [ret |-> 0, fs |-> s.fs,
         log |-> << [item |-> profile_path, ok |-> p.ok],
                    [item |-> ssh_config_path, ok |-> s.ok] >>]

RECURSIVE KeyFilesLoopShort(_, _)
\* KeyFilesLoop stopping one entry short of the end of key_files
KeyFilesLoopShort(f, i) ==
    IF i >= Len(key_files) THEN 1
    ELSE IF ~Access(f, key_files[i]) THEN 0
    ELSE KeyFilesLoopShort(f, i + 1)

RECURSIVE KeyFilesLoop(_, _)
KeyFilesLoop(f, i) ==
    IF i > Len(key_files) THEN 1
    ELSE IF ~Access(f, key_files[i]) THEN 0
    ELSE KeyFilesLoop(f, i + 1)

\* is_bootstrap_installed with its two results exchanged
is_bootstrap_installed_negated(f) == IF KeyFilesLoop(f, 1) = 1 THEN 0 ELSE 1

is_bootstrap_installed(f) == KeyFilesLoop(f, 1)

----------------------------------------------------------------------------
(* Payload materialization *)

\* The packaged assets that are modelled: present or not under the name of
\* this architecture, a well-formed zip or not, and the entries it holds
\* (paths relative to the extraction directory).
Asset(present, valid, entries) ==
    [present |-> present, valid |-> valid, entries |-> entries]

Assets ==
    { Asset(TRUE, TRUE, << <<"bin", "busybox">>, <<"bin", "ssh">>, <<"bin", "ssh-keygen">> >>),
      Asset(TRUE, TRUE, << <<"bin", "ssh">>, <<"bin", "ssh-keygen">> >>),
      Asset(TRUE, TRUE, << <<"etc", "profile">>, <<"bin", "busybox">>, <<"bin", "ssh">>,
                           <<"bin", "ssh-keygen">> >>),
      Asset(TRUE, FALSE, << >>),
      Asset(FALSE, FALSE, << >>) }

\* content of the scratch file once n buffers of asset a were written to it
Copied(a, n) ==
    IF n = 0 THEN ""
    ELSE IF n < AssetChunks THEN "trunc"
    ELSE IF a.valid THEN "zip" ELSE "corrupt"

RECURSIVE CopyLoopKeepingPartial(_, _, _, _, _, _)
\* CopyLoop leaving the partly written destination in place when write fails
CopyLoopKeepingPartial(f, a, dest, dest_path, k, bad) ==
    IF k > AssetChunks \/ <<"AAsset_read", k>> \in bad
    THEN [ret |-> 0, fs |-> f, opened |-> 2, closed |-> 2]
    ELSE IF <<"write", k>> \in bad
    THEN [ret |-> -1, fs |-> f, opened |-> 2, closed |-> 2]
    ELSE CopyLoopKeepingPartial(WriteData(f, dest, Copied(a, k)), a, dest, dest_path,
                                k + 1, bad)

RECURSIVE CopyLoop(_, _, _, _, _, _)
\* the read/write loop of extract_asset_file; k is the buffer being copied.
\* AAsset_read yields 0 at the end of the asset and a negative value on a
\* read error (site "AAsset_read"); both end the loop.
CopyLoop(f, a, dest, dest_path, k, bad) ==
    IF k > AssetChunks \/ <<"AAsset_read", k>> \in bad
    THEN [ret |-> 0, fs |-> f, opened |-> 2, closed |-> 2]
    ELSE IF <<"write", k>> \in bad
    THEN [ret |-> -1, fs |-> Unlink(f, dest_path).fs, opened |-> 2, closed |-> 2]
    ELSE CopyLoop(WriteData(f, dest, Copied(a, k)), a, dest, dest_path, k + 1, bad)

\* extract_asset_file returning without AAsset_close when open fails
extract_asset_file_leaking(f, a, dest_path, bad) ==
    IF ~a.present \/ <<"AAssetManager_open", dest_path>> \in bad
    THEN [ret |-> -1, fs |-> f, opened |-> 0, closed |-> 0]
    ELSE IF <<"strdup", dest_path>> \in bad
    THEN [ret |-> -1, fs |-> f, opened |-> 1, closed |-> 1]
    ELSE LET d == create_directory_recursive(f, Parent(dest_path), Mode0755, bad) IN
         IF d.ret # 0 THEN [ret |-> -1, fs |-> d.fs, opened |-> 1, closed |-> 1]
         ELSE LET o == OpenTrunc(d.fs, dest_path, Mode0644, <<"open", dest_path>> \in bad) IN
              IF o.ret # 0 THEN [ret |-> -1, fs |-> o.fs, opened |-> 1, closed |-> 0]
              ELSE CopyLoop(o.fs, a, o.path, dest_path, 1, bad)

extract_asset_file(f, a, dest_path, bad) ==
    IF ~a.present \/ <<"AAssetManager_open", dest_path>> \in bad
    THEN [ret |-> -1, fs |-> f, opened |-> 0, closed |-> 0]
    ELSE IF <<"strdup", dest_path>> \in bad
    THEN [ret |-> -1, fs |-> f, opened |-> 1, closed |-> 1]
    ELSE LET d == create_directory_recursive(f, Parent(dest_path), Mode0755, bad) IN
         IF d.ret # 0 THEN [ret |-> -1, fs |-> d.fs, opened |-> 1, closed |-> 1]
         ELSE LET o == OpenTrunc(d.fs, dest_path, Mode0644, <<"open", dest_path>> \in bad) IN
              IF o.ret # 0 THEN [ret |-> -1, fs |-> o.fs, opened |-> 1, closed |-> 1]
              ELSE CopyLoop(o.fs, a, o.path, dest_path, 1, bad)

\* the decoder writes one entry: missing parent directories are created and
\* a file or link occupying the destination is replaced
ExtractEntry(f, path) ==
    LET d == MkdirLoop(f, Parent(path), 1, Mode0755, {}) IN
    IF d.ret # 0 THEN [ret |-> -1, fs |-> d.fs]
    ELSE LET u == IF LStat(d.fs, path).kind \in {"file", "link"}
                  THEN Unlink(d.fs, path).fs ELSE d.fs
             o == OpenTrunc(u, path, Mode0644, FALSE)
         IN  IF o.ret # 0 THEN [ret |-> -1, fs |-> o.fs]
             ELSE [ret |-> 0, fs |-> WriteData(o.fs, o.path, "payload")]

RECURSIVE UnzipLoop(_, _, _, _, _)
\* system("cd dest_dir && unzip -qq zip_path"): the entries are written in
\* archive order; the decoder may fail before any entry and after the last
\* one (site "system")
UnzipLoop(f, entries, dest_dir, i, bad) ==
    IF <<"system", i>> \in bad THEN [ret |-> -1, fs |-> f]
    ELSE IF i > Len(entries) THEN [ret |-> 0, fs |-> f]
    ELSE LET e == ExtractEntry(f, dest_dir \o entries[i]) IN
         IF e.ret # 0 THEN e
         ELSE UnzipLoop(e.fs, entries, dest_dir, i + 1, bad)

extract_bootstrap_zip(f, a, zip_path, dest_dir, bad) ==
    LET d == create_directory_recursive(f, dest_dir, Mode0755, bad) IN
    IF d.ret # 0 THEN [ret |-> -1, fs |-> d.fs]
    ELSE LET z == Stat(d.fs, zip_path) IN
         IF z.kind # "file" \/ z.data # "zip"
         THEN [ret |-> -1, fs |-> d.fs]
         ELSE UnzipLoop(d.fs, a.entries, dest_dir, 1, bad)

----------------------------------------------------------------------------
(* Environment failures *)

RECURSIVE SmallSubsets(_, _)
\* the subsets of S with at most k elements
SmallSubsets(S, k) ==
    IF k <= 0 THEN {{}}
    ELSE LET T == SmallSubsets(S, k - 1) IN T \cup {b \cup {s} : b \in T, s \in S}

\* The failures the environment may still inject into one call.  A failure
\* at a site of Fatal makes the call return at once, so no two of them
\* happen in one call and none is followed by another failure; failures at
\* the sites of Degraded are survived and combine freely.
Choices(Fatal, Degraded) ==
    IF nfaults >= MaxFaults THEN {{}}
    ELSE {{s} : s \in Fatal} \cup SmallSubsets(Degraded, MaxFaults - nfaults)

AllDirPaths == UNION {Prefixes(directories[i]) : i \in 1..Len(directories)}

Missing(f, P) == {q \in P : Kind(f, q) = "none"}

DirFatal(f) ==
    {<<"mkdir", p>> : p \in Missing(f, AllDirPaths)}
    \cup {<<"strdup", directories[i]>> : i \in 1..Len(directories)}

DirDegraded == {<<"chmod", SSH_DIR>>, <<"chmod", VAR_EMPTY_DIR>>}

AssetFatal(f) ==
    {<<"AAssetManager_open", temp_zip_path>>, <<"strdup", temp_zip_path>>,
     <<"strdup", BOOTSTRAP_TMP_DIR>>, <<"open", temp_zip_path>>}
    \cup {<<"mkdir", p>> : p \in Missing(f, Prefixes(BOOTSTRAP_TMP_DIR))}
    \cup {<<"write", k>> : k \in 1..AssetChunks}
    \cup {<<"AAsset_read", k>> : k \in 1..AssetChunks}

ZipFatal(f) ==
    {<<"strdup", BOOTSTRAP_PREFIX_DIR>>}
    \cup {<<"mkdir", p>> : p \in Missing(f, Prefixes(BOOTSTRAP_PREFIX_DIR))}
    \cup {<<"system", i>> : i \in 1..(Len(asset.entries) + 1)}

PermSites == {<<"chmod", binaries[i]>> : i \in 1..Len(binaries)}

SymlinkSites == {<<"symlink", BIN_DIR \o <<commands[i]>> >> : i \in 1..Len(commands)}

ConfigSites ==
    {<<"fopen", profile_path>>, <<"fopen", ssh_config_path>>,
     <<"fprintf", profile_path>>, <<"fprintf", ssh_config_path>>}

----------------------------------------------------------------------------
(* Initial filesystems *)

RECURSIVE AddEntry(_, _, _, _)
\* f with node placed at path, the missing ancestors being directories
AddEntry(f, path, node, i) ==
    IF i = Len(path) THEN Put(f, path, node)
    ELSE LET sub == SubSeq(path, 1, i) IN
         AddEntry(IF sub \in DOMAIN f THEN f ELSE Put(f, sub, DirNode(Mode0755)),
                  path, node, i + 1)

RECURSIVE AddEntries(_, _)
AddEntries(f, E) ==
    IF E = {} THEN f
    ELSE LET e == CHOOSE x \in E : TRUE IN
         AddEntries(AddEntry(f, e.path, e.node, 1), E \ {e})

Entry(path, node) == [path |-> path, node |-> node]

\* no two entries on one path, none below another that is not a directory
Compatible(f, E) ==
    /\ \A e \in E : e.path \notin DOMAIN f
                    /\ \A q \in Prefixes(Parent(e.path)) : Kind(f, q) \in {"none", "dir"}
    /\ \A e1, e2 \in E : e1 # e2 => /\ e1.path # e2.path
                                     /\ e1.path \notin Prefixes(e2.path)

FilesFS == AddEntry(RootFS, FILES, DirNode(Mode0755), 1)

\* the key files placed under the prefix by an earlier installation
PreExtractedFS ==
    AddEntries(FilesFS,
        { Entry(BIN_DIR \o <<"busybox">>, FileNode(Mode0755, "payload")),
          Entry(BIN_DIR \o <<"ssh">>, FileNode(Mode0755, "payload")),
          Entry(BIN_DIR \o <<"ssh-keygen">>, FileNode(Mode0755, "payload")),
          Entry(profile_path, FileNode(Mode0644, "profile")) })

PreEntries ==
    { Entry(BIN_DIR \o <<"busybox">>, FileNode(Mode0644, "payload")),
      Entry(BIN_DIR \o <<"ssh">>, FileNode(Mode0644, "payload")),
      Entry(profile_path, FileNode(Mode0644, "old")),
      Entry(BIN_DIR \o <<"sh">>, FileNode(Mode0644, "old")),
      Entry(BIN_DIR \o <<"sh">>, LinkNode(<<"busybox">>)),
      Entry(BIN_DIR \o <<"sh">>, LinkNode(<<"toybox">>)),
      Entry(BIN_DIR \o <<"ls">>, LinkNode(<<"sh">>)),
      Entry(SSH_DIR, DirNode(511)),
      Entry(SSH_DIR, FileNode(Mode0644, "old")),
      Entry(VAR_EMPTY_DIR, DirNode(Mode0700)),
      Entry(BOOTSTRAP_TMP_DIR, FileNode(Mode0644, "old")),
      Entry(temp_zip_path, FileNode(Mode0644, "old")),
      Entry(BOOTSTRAP_PREFIX_DIR \o <<"etc">>, FileNode(Mode0644, "old")) }

\* The filesystems an invocation may find: nothing at all, the application's
\* files directory alone or with one earlier entry, and a tree that holds
\* the key files.
InitFS ==
    {RootFS, FilesFS, PreExtractedFS}
    \cup {AddEntry(FilesFS, e.path, e.node, 1) : e \in PreEntries}

----------------------------------------------------------------------------
(* The JNI entry points *)

\* the masks a process may run under: 022 and 077
Umasks == {18, 63}

\* The builds that are modelled: the four recognized targets differ only in
\* the name of the asset they ask for, so one of them stands for all.
BuildTargets == {"__aarch64__", "other"}

Init ==
    /\ fs \in InitFS
    /\ fs0 = fs
    /\ fs1 = fs
    /\ pc = "idle"
    /\ ret = "none"
    /\ steps = <<>>
    /\ abi \in BuildTargets
    /\ asset \in Assets
    /\ mgr = TRUE
    /\ umask \in Umasks
    /\ faults = {}
    /\ nfaults = 0
    /\ runs = 0
    /\ status = "none"
    /\ info = "none"
    /\ arg = <<>>
    /\ nopen = 0

Step(fn, r, log) == [fn |-> fn, ret |-> r, log |-> log]

\* the environment injects the failures bad into the call under way; the
\* callers admit only failures that each change what the call does
Inject(bad) ==
    /\ faults' = faults \cup bad
    /\ nfaults' = nfaults + Cardinality(bad)

\* installBootstrap is called
Call ==
    /\ pc = "idle"
    /\ runs' = runs + 1
    /\ pc' = "check"
    /\ mgr' \in BOOLEAN
    /\ fs0' = fs
    /\ steps' = <<>>
    /\ faults' = {}
    /\ ret' = "none"
    /\ status' = "none"
    /\ info' = "none"
    /\ UNCHANGED <<fs, fs1, abi, asset, umask, nfaults, arg, nopen>>

\* installBootstrap, "Check if already installed"
CheckInstalled ==
    /\ pc = "check"
    /\ IF is_bootstrap_installed(fs) # 0
       THEN pc' = "returned" /\ ret' = "JNI_TRUE"
       ELSE pc' = "arch" /\ ret' = ret
    /\ UNCHANGED <<fs, fs0, fs1, steps, abi, asset, mgr, umask, faults, nfaults,
                   runs, status, info, arg, nopen>>

\* ProbeArchitecture without the abort on the unknown architecture
ProbeArchitectureNoAbort ==
    /\ pc = "arch"
    /\ pc' = "mgr"
    /\ UNCHANGED <<fs, fs0, fs1, ret, steps, abi, asset, mgr, umask, faults, nfaults,
                   runs, status, info, arg, nopen>>

\* installBootstrap, "Get Android architecture"
ProbeArchitecture ==
    /\ pc = "arch"
    /\ IF get_android_architecture = "unknown"
       THEN pc' = "returned" /\ ret' = "JNI_FALSE"
       ELSE pc' = "mgr" /\ ret' = ret
    /\ UNCHANGED <<fs, fs0, fs1, steps, abi, asset, mgr, umask, faults, nfaults,
                   runs, status, info, arg, nopen>>

\* installBootstrap, "Get asset manager"
GetAssetManager ==
    /\ pc = "mgr"
    /\ IF ~mgr
       THEN pc' = "returned" /\ ret' = "JNI_FALSE"
       ELSE pc' = "dirs" /\ ret' = ret
    /\ UNCHANGED <<fs, fs0, fs1, steps, abi, asset, mgr, umask, faults, nfaults,
                   runs, status, info, arg, nopen>>

\* SetupDirectories going on to the asset copy after a failed scaffolding
SetupDirectoriesNoAbort ==
    /\ pc = "dirs"
    /\ \E bad \in Choices(DirFatal(fs), DirDegraded) :
         LET r == setup_bootstrap_directories(fs, bad) IN
         /\ \A s \in bad : setup_bootstrap_directories(fs, bad \ {s}) # r
         /\ Inject(bad)
         /\ fs' = r.fs
         /\ steps' = Append(steps, Step("setup_bootstrap_directories", r.ret, <<>>))
         /\ pc' = "asset"
         /\ ret' = ret
    /\ UNCHANGED <<fs0, fs1, abi, asset, mgr, umask, runs, status, info, arg, nopen>>

\* installBootstrap, "Setup directories"
SetupDirectories ==
    /\ pc = "dirs"
    /\ \E bad \in Choices(DirFatal(fs), DirDegraded) :
         LET r == setup_bootstrap_directories(fs, bad) IN
         /\ \A s \in bad : setup_bootstrap_directories(fs, bad \ {s}) # r
         /\ Inject(bad)
         /\ fs' = r.fs
         /\ steps' = Append(steps, Step("setup_bootstrap_directories", r.ret, <<>>))
         /\ IF r.ret # 0
            THEN pc' = "returned" /\ ret' = "JNI_FALSE"
            ELSE pc' = "asset" /\ ret' = ret
    /\ UNCHANGED <<fs0, fs1, abi, asset, mgr, umask, runs, status, info, arg, nopen>>

\* installBootstrap, "Extract ZIP from assets to temp location"
ExtractAsset ==
    /\ pc = "asset"
    /\ \E bad \in Choices(AssetFatal(fs), {}) :
         LET r == extract_asset_file(fs, asset, temp_zip_path, bad) IN
         /\ \A s \in bad : extract_asset_file(fs, asset, temp_zip_path, bad \ {s}) # r
         /\ Inject(bad)
         /\ fs' = r.fs
         /\ nopen' = nopen + r.opened - r.closed
         /\ steps' = Append(steps, Step("extract_asset_file", r.ret,
                                         [opened |-> r.opened, closed |-> r.closed]))
         /\ IF r.ret # 0
            THEN pc' = "returned" /\ ret' = "JNI_FALSE"
            ELSE pc' = "zip" /\ ret' = ret
    /\ UNCHANGED <<fs0, fs1, abi, asset, mgr, umask, runs, status, info, arg>>

\* ExtractZip going on to permission normalization after a failed extraction
ExtractZipIgnoringFailure ==
    /\ pc = "zip"
    /\ \E bad \in Choices(ZipFatal(fs), {}) :
         LET r == extract_bootstrap_zip(fs, asset, temp_zip_path, BOOTSTRAP_PREFIX_DIR, bad) IN
         /\ \A s \in bad :
               extract_bootstrap_zip(fs, asset, temp_zip_path, BOOTSTRAP_PREFIX_DIR,
                                     bad \ {s}) # r
         /\ Inject(bad)
         /\ fs' = Unlink(r.fs, temp_zip_path).fs
         /\ steps' = Append(steps, Step("extract_bootstrap_zip", r.ret, <<>>))
         /\ pc' = "perms"
         /\ ret' = ret
    /\ UNCHANGED <<fs0, fs1, abi, asset, mgr, umask, runs, status, info, arg, nopen>>

\* installBootstrap, "Extract bootstrap files from ZIP" and "Clean up temp
\* ZIP": the scratch file is unlinked whether or not the extraction failed
ExtractZip ==
    /\ pc = "zip"
    /\ \E bad \in Choices(ZipFatal(fs), {}) :
         LET r == extract_bootstrap_zip(fs, asset, temp_zip_path, BOOTSTRAP_PREFIX_DIR, bad) IN
         /\ \A s \in bad :
               extract_bootstrap_zip(fs, asset, temp_zip_path, BOOTSTRAP_PREFIX_DIR,
                                     bad \ {s}) # r
         /\ Inject(bad)
         /\ fs' = Unlink(r.fs, temp_zip_path).fs
         /\ steps' = Append(steps, Step("extract_bootstrap_zip", r.ret, <<>>))
         /\ IF r.ret # 0
            THEN pc' = "returned" /\ ret' = "JNI_FALSE"
            ELSE pc' = "perms" /\ ret' = ret
    /\ UNCHANGED <<fs0, fs1, abi, asset, mgr, umask, runs, status, info, arg, nopen>>

\* installBootstrap, "Setup permissions"
BinaryPermissions ==
    /\ pc = "perms"
    /\ \E bad \in Choices({}, PermSites) :
         LET r == setup_binary_permissions(fs, bad) IN
         /\ \A s \in bad : setup_binary_permissions(fs, bad \ {s}) # r
         /\ Inject(bad)
         /\ fs' = r.fs
         /\ steps' = Append(steps, Step("setup_binary_permissions", r.ret, r.log))
         /\ IF r.ret # 0
            THEN pc' = "returned" /\ ret' = "JNI_FALSE"
            ELSE pc' = "symlinks" /\ ret' = ret
    /\ UNCHANGED <<fs0, fs1, abi, asset, mgr, umask, runs, status, info, arg, nopen>>

\* installBootstrap, "symlinks"
BusyboxSymlinks ==
    /\ pc = "symlinks"
    /\ \E bad \in Choices({}, SymlinkSites) :
         LET r == setup_busybox_symlinks(fs, bad) IN
         /\ \A s \in bad : setup_busybox_symlinks(fs, bad \ {s}) # r
         /\ Inject(bad)
         /\ fs' = r.fs
         /\ steps' = Append(steps, Step("setup_busybox_symlinks", r.ret, r.log))
         /\ IF r.ret # 0
            THEN pc' = "returned" /\ ret' = "JNI_FALSE"
            ELSE pc' = "config" /\ ret' = ret
    /\ UNCHANGED <<fs0, fs1, abi, asset, mgr, umask, runs, status, info, arg, nopen>>

\* ConfigurationFiles returning false when a configuration file was not
\* written
ConfigurationFilesStrict ==
    /\ pc = "config"
    /\ \E bad \in Choices({}, ConfigSites) :
         LET r == setup_configuration_files(fs, bad) IN
         /\ \A s \in bad : setup_configuration_files(fs, bad \ {s}) # r
         /\ Inject(bad)
         /\ fs' = r.fs
         /\ steps' = Append(steps, Step("setup_configuration_files", r.ret, r.log))
         /\ pc' = "returned"
         /\ ret' = IF r.ret # 0 \/ \E i \in 1..Len(r.log) : ~r.log[i].ok
                   THEN "JNI_FALSE" ELSE "JNI_TRUE"
    /\ UNCHANGED <<fs0, fs1, abi, asset, mgr, umask, runs, status, info, arg, nopen>>

\* installBootstrap, "Setup configuration files" and the final return
ConfigurationFiles ==
    /\ pc = "config"
    /\ \E bad \in Choices({}, ConfigSites) :
         LET r == setup_configuration_files(fs, bad) IN
         /\ \A s \in bad : setup_configuration_files(fs, bad \ {s}) # r
         /\ Inject(bad)
         /\ fs' = r.fs
         /\ steps' = Append(steps, Step("setup_configuration_files", r.ret, r.log))
         /\ pc' = "returned"
         /\ ret' = IF r.ret # 0 THEN "JNI_FALSE" ELSE "JNI_TRUE"
    /\ UNCHANGED <<fs0, fs1, abi, asset, mgr, umask, runs, status, info, arg, nopen>>

\* isBootstrapInstalled is called
IsBootstrapInstalled ==
    /\ pc \in {"idle", "returned"}
    /\ status = "none"
    /\ status' = IF is_bootstrap_installed(fs) # 0 THEN "JNI_TRUE" ELSE "JNI_FALSE"
    /\ UNCHANGED <<fs, fs0, fs1, pc, ret, steps, abi, asset, mgr, umask, faults,
                   nfaults, runs, info, arg, nopen>>

\* getBootstrapInfo is called
GetBootstrapInfo ==
    /\ pc \in {"idle", "returned"}
    /\ info = "none"
    /\ info' = IF is_bootstrap_installed(fs) # 0 THEN "Yes" ELSE "No"
    /\ UNCHANGED <<fs, fs0, fs1, pc, ret, steps, abi, asset, mgr, umask, faults,
                   nfaults, runs, status, arg, nopen>>

Next ==
    \/ Call
    \/ CheckInstalled
    \/ ProbeArchitecture
    \/ GetAssetManager
    \/ SetupDirectories
    \/ ExtractAsset
    \/ ExtractZip
    \/ BinaryPermissions
    \/ BusyboxSymlinks
    \/ ConfigurationFiles
    \/ IsBootstrapInstalled
    \/ GetBootstrapInfo

Spec == Init /\ [][Next]_vars

----------------------------------------------------------------------------
(* Properties of one install invocation (specification Spec) *)

\* every entry of the fixed key-file list exists
KeyFilesExist(f) ==
    /\ Access(f, BIN_DIR \o <<"busybox">>)
    /\ Access(f, BIN_DIR \o <<"ssh">>)
    /\ Access(f, BIN_DIR \o <<"ssh-keygen">>)
    /\ Access(f, BOOTSTRAP_PREFIX_DIR \o <<"etc", "profile">>)

Called(fn) == \E i \in 1..Len(steps) : steps[i].fn = fn

Failed(fn) == \E i \in 1..Len(steps) : steps[i].fn = fn /\ steps[i].ret # 0

Succeeded(fn) == \E i \in 1..Len(steps) : steps[i].fn = fn /\ steps[i].ret = 0

LogOf(fn) == steps[CHOOSE i \in 1..Len(steps) : steps[i].fn = fn].log

Pipeline ==
    << "setup_bootstrap_directories", "extract_asset_file", "extract_bootstrap_zip",
       "setup_binary_permissions", "setup_busybox_symlinks", "setup_configuration_files" >>

\* the run called every function of the pipeline, in order, through to the
\* end of configuration emission
RanToDone ==
    /\ Len(steps) = Len(Pipeline)
    /\ \A i \in 1..Len(Pipeline) : steps[i].fn = Pipeline[i]

\* C1: when all key files exist at the call, installBootstrap returns true
\* at once: it calls no function of the pipeline and the filesystem stays
\* what it was at entry, in every state of the invocation.
C1_FastPathNoMutation ==
    (runs > 0 /\ KeyFilesExist(fs0)) =>
        /\ fs = fs0
        /\ steps = <<>>
        /\ pc \in {"check", "returned"}
        /\ pc = "returned" => ret = "JNI_TRUE"

C1_Witness ==
    /\ pc = "returned"
    /\ KeyFilesExist(fs0)
    /\ ret = "JNI_TRUE"
    /\ fs = fs0

\* C2: installBootstrap returns true exactly when the key files existed at
\* entry or the pipeline ran through to the end of configuration emission;
\* an unrecognized architecture, an unavailable asset handle, and a failure
\* of directory scaffolding, of archive materialization, of extraction or
\* of the symlink farm (multi-call binary missing) each make it return false.
C2_ReturnValue ==
    pc = "returned" =>
        /\ ret = "JNI_TRUE" <=> (KeyFilesExist(fs0) \/ RanToDone)
        /\ ret \in {"JNI_TRUE", "JNI_FALSE"}
        /\ ~KeyFilesExist(fs0) =>
            /\ get_android_architecture = "unknown" => ret = "JNI_FALSE"
            /\ ~mgr => ret = "JNI_FALSE"
            /\ ~asset.present => ret = "JNI_FALSE"
            /\ ~asset.valid => ret = "JNI_FALSE"
            /\ Failed("setup_bootstrap_directories") => ret = "JNI_FALSE"
            /\ Failed("extract_asset_file") => ret = "JNI_FALSE"
            /\ Failed("extract_bootstrap_zip") => ret = "JNI_FALSE"
            /\ Failed("setup_busybox_symlinks") => ret = "JNI_FALSE"
            /\ (Called("setup_busybox_symlinks") /\ ~Access(fs, busybox_path))
                   => ret = "JNI_FALSE"

C2_Witness ==
    /\ pc = "returned"
    /\ ret = "JNI_TRUE"
    /\ ~KeyFilesExist(fs0)
    /\ RanToDone

\* C3: with the key files not all present, an unrecognized architecture or
\* an unavailable asset handle makes the invocation return false with no
\* directory created: the filesystem is the one found at entry.
C3_AbortBeforeDirectories ==
    (runs > 0 /\ ~KeyFilesExist(fs0) /\ (get_android_architecture = "unknown" \/ ~mgr)) =>
        /\ Dirs(fs) = Dirs(fs0)
        /\ fs = fs0
        /\ steps = <<>>
        /\ pc = "returned" => ret = "JNI_FALSE"

C3_Witness ==
    /\ pc = "returned"
    /\ ~KeyFilesExist(fs0)
    /\ get_android_architecture = "unknown"
    /\ ret = "JNI_FALSE"
    /\ Dirs(fs) = Dirs(fs0)

\* an archive that holds the multi-call binary, the SSH client and the key
\* generator at their expected relative paths
HoldsBinaries(a) ==
    /\ a.present /\ a.valid
    /\ \A e \in {<<"bin", "busybox">>, <<"bin", "ssh">>, <<"bin", "ssh-keygen">>} :
          \E i \in 1..Len(a.entries) : a.entries[i] = e

EmptyFS(f) == f = RootFS \/ f = FilesFS

\* C4: from an empty filesystem, with a valid archive holding the three
\* binaries, a recognized architecture, an asset handle and no failure of
\* the environment, installBootstrap returns true, the key files exist and
\* a status query made afterwards returns true.
C4_EndToEnd ==
    (pc = "returned" /\ EmptyFS(fs0) /\ HoldsBinaries(asset) /\ mgr
       /\ get_android_architecture # "unknown" /\ faults = {}) =>
        /\ ret = "JNI_TRUE"
        /\ KeyFilesExist(fs)
        /\ status # "none" => status = "JNI_TRUE"

C4_Witness ==
    /\ pc = "returned"
    /\ fs0 = RootFS
    /\ HoldsBinaries(asset)
    /\ faults = {}
    /\ ret = "JNI_TRUE"
    /\ status = "JNI_TRUE"

\* C5 (as claimed): once directory scaffolding of the fixed tree has
\* reported success, the home .ssh directory has mode 0700 and var/empty has
\* mode 0755.
C5_ScaffoldingSetsModes ==
    Succeeded("setup_bootstrap_directories") =>
        /\ Stat(fs, SSH_DIR).mode = Mode0700
        /\ Stat(fs, VAR_EMPTY_DIR).mode = Mode0755

\* C10: once extraction has succeeded and the multi-call binary exists,
\* installBootstrap returns true whatever chmod, symlink and config-file
\* failures were injected; permission normalization handles every binary
\* that exists, the symlink farm every manifest entry and configuration
\* emission both files, a failing item being followed by the rest.
C10_DegradedFailuresContinue ==
    /\ (pc = "returned" /\ Succeeded("extract_bootstrap_zip") /\ Access(fs, busybox_path))
          => ret = "JNI_TRUE"
    /\ pc = "symlinks" =>
          LET log == LogOf("setup_binary_permissions") IN
          /\ {log[i].item : i \in 1..Len(log)}
                = {binaries[j] : j \in {k \in 1..Len(binaries) : Access(fs, binaries[k])}}
          /\ \A i \in 1..Len(log) :
                /\ log[i].ok <=> <<"chmod", log[i].item>> \notin faults
                /\ log[i].ok => Stat(fs, log[i].item).mode = Mode0755
    /\ pc = "config" =>
          LET log == LogOf("setup_busybox_symlinks") IN
          /\ Len(log) = Len(commands)
          /\ \A i \in 1..Len(log) :
                /\ log[i].item = BIN_DIR \o <<commands[i]>>
                /\ <<"symlink", log[i].item>> \in faults => ~log[i].ok
                /\ log[i].ok => LStat(fs, log[i].item) = LinkNode(<<"busybox">>)
    /\ (pc = "returned" /\ Called("setup_configuration_files")) =>
          LET log == LogOf("setup_configuration_files") IN
          /\ Len(log) = 2
          /\ log[1].item = profile_path /\ log[2].item = ssh_config_path
          /\ \A i \in 1..2 :
                /\ <<"fopen", log[i].item>> \in faults => ~log[i].ok
                /\ log[i].ok => Stat(fs, log[i].item).kind = "file"

C10_Witness ==
    /\ pc = "returned"
    /\ ret = "JNI_TRUE"
    /\ <<"symlink", BIN_DIR \o <<commands[1]>> >> \in faults
    /\ \E i \in 1..Len(binaries) : <<"chmod", binaries[i]>> \in faults
    /\ LStat(fs, BIN_DIR \o <<commands[2]>>) = LinkNode(<<"busybox">>)

\* the scratch archive was opened for writing by this run
ScratchOpened ==
    /\ Called("extract_asset_file")
    /\ LogOf("extract_asset_file").opened = 2

\* C12: when installBootstrap returns from a run that created or wrote the
\* scratch file tmp/bootstrap.zip, whether the copy failed, the extraction
\* failed or the run succeeded, nothing exists at the scratch path.
C12_ScratchDeleted ==
    (pc = "returned" /\ ScratchOpened) => LStat(fs, temp_zip_path).kind = "none"

C12_Witness ==
    /\ pc = "returned"
    /\ ScratchOpened
    /\ Failed("extract_asset_file")
    /\ LStat(fs0, temp_zip_path).kind = "file"
    /\ LStat(fs, temp_zip_path).kind = "none"

\* C13: isBootstrapInstalled answers true exactly when every key file
\* exists, whatever the files hold and whatever their modes, and the
\* installed field of getBootstrapInfo says the same in that filesystem.
C13_StatusIsKeyFiles ==
    /\ status # "none" => (status = "JNI_TRUE" <=> KeyFilesExist(fs))
    /\ info # "none" => (info = "Yes" <=> KeyFilesExist(fs))
    /\ (status # "none" /\ info # "none") => (status = "JNI_TRUE" <=> info = "Yes")

C13_Witness ==
    /\ pc = "returned"
    /\ status = "JNI_TRUE"
    /\ info = "Yes"
    /\ Stat(fs, profile_path).data = "partial"
    /\ Stat(fs, BIN_DIR \o <<"ssh">>).mode # Mode0755

\* a path holds something this run put there: the node is not the one the
\* path had at entry
Written(p) == p \in DOMAIN fs /\ (p \notin DOMAIN fs0 \/ fs0[p] # fs[p])

\* C14: the functions of the pipeline are called in the fixed order, each
\* one only after every earlier one succeeded, and an effect of a step is
\* in the filesystem only when the steps before it succeeded: an extracted
\* file after the copy, a mode 0755 or a busybox link after the extraction,
\* configuration content after the symlink farm.  Nothing is rolled back:
\* what existed at entry as a directory and what scaffolding created is
\* still there when the run has aborted.
C14_ForwardOnly ==
    /\ Len(steps) <= Len(Pipeline)
    /\ \A i \in 1..Len(steps) :
         /\ steps[i].fn = Pipeline[i]
         /\ i < Len(steps) => steps[i].ret = 0
    /\ (pc = "returned" /\ ret = "JNI_FALSE" /\ steps # <<>>) =>
         steps[Len(steps)].ret # 0
    /\ \A p \in DOMAIN fs :
         /\ (Written(p) /\ p # <<>>) => Called("setup_bootstrap_directories")
         /\ (Written(p) /\ fs[p].kind = "file" /\ fs[p].data = "payload") =>
                Succeeded("extract_asset_file")
         /\ (Written(p) /\ fs[p].kind = "file" /\ fs[p].mode = Mode0755) =>
                Succeeded("extract_bootstrap_zip")
         /\ (Written(p) /\ fs[p].kind = "link") =>
                Succeeded("setup_binary_permissions")
         /\ (Written(p) /\ fs[p].kind = "file"
                /\ fs[p].data \in {"profile", "ssh_config", "partial"}) =>
                Succeeded("setup_busybox_symlinks")
    /\ \A p \in DOMAIN fs0 : fs0[p].kind = "dir" => Kind(fs, p) = "dir"
    /\ Succeeded("setup_bootstrap_directories") =>
         \A i \in 1..Len(directories) : directories[i] \in DOMAIN fs

C14_Witness ==
    /\ pc = "returned"
    /\ ret = "JNI_FALSE"
    /\ Failed("extract_bootstrap_zip")
    /\ Written(BIN_DIR \o <<"busybox">>)
    /\ ~Access(fs, BIN_DIR \o <<"ssh">>)
    /\ Kind(fs0, BIN_DIR) = "none"
    /\ Kind(fs, SSH_DIR) = "dir"

\* C15: permission normalization always reports success; every path of the
\* binary table that exists and whose chmod is not refused ends with mode
\* 0755; a path of the table that does not exist is not created; no node
\* other than those the table's paths lead to is changed.
C15_PermissionsFrame ==
    [][ (pc = "perms" /\ pc' # "perms") =>
          /\ pc' = "symlinks"
          /\ steps'[Len(steps')].ret = 0
          /\ DOMAIN fs' = DOMAIN fs
          /\ \A p \in DOMAIN fs :
               fs'[p] # fs[p] =>
                 /\ \E i \in 1..Len(binaries) :
                      /\ Access(fs, binaries[i])
                      /\ Resolve(fs, binaries[i], TRUE).path = p
                 /\ fs'[p] = [fs[p] EXCEPT !.mode = Mode0755]
          /\ \A i \in 1..Len(binaries) :
               (Access(fs, binaries[i]) /\ <<"chmod", binaries[i]>> \notin faults') =>
                 Stat(fs', binaries[i]).mode = Mode0755 ]_vars

C15_Witness ==
    /\ pc = "symlinks"
    /\ Stat(fs, BIN_DIR \o <<"busybox">>).mode = Mode0755
    /\ <<"chmod", BIN_DIR \o <<"ssh">> >> \in faults
    /\ Stat(fs, BIN_DIR \o <<"ssh">>).mode # Mode0755
    /\ ~Access(fs, BIN_DIR \o <<"ash">>)
    /\ Access(fs, BIN_DIR \o <<"sh">>)

\* C16: extract_asset_file closes, on every path out of it, each asset
\* handle and each file descriptor it opened: no handle is open outside
\* the call, and the call closed as many as it opened.
C16_HandlesReleased ==
    /\ nopen = 0
    /\ Called("extract_asset_file") =>
         LogOf("extract_asset_file").closed = LogOf("extract_asset_file").opened

C16_Witness ==
    /\ pc = "returned"
    /\ Failed("extract_asset_file")
    /\ LogOf("extract_asset_file").opened = 1
    /\ <<"open", temp_zip_path>> \in faults
    /\ nopen = 0

\* the archive holds an entry for etc/profile
HoldsProfile(a) == \E i \in 1..Len(a.entries) : a.entries[i] = <<"etc", "profile">>

\* C18: when etc/profile does not exist at the call and the archive holds
\* no etc/profile, a run that returns false leaves a filesystem in which
\* is_bootstrap_installed answers no.
C18_FailedRunNotInstalled ==
    (pc = "returned" /\ ret = "JNI_FALSE"
        /\ ~Access(fs0, profile_path) /\ ~HoldsProfile(asset)) =>
        /\ is_bootstrap_installed(fs) = 0
        /\ ~KeyFilesExist(fs)
        /\ status # "JNI_TRUE"

C18_Witness ==
    /\ pc = "returned"
    /\ ret = "JNI_FALSE"
    /\ ~Access(fs0, profile_path)
    /\ ~HoldsProfile(asset)
    /\ Access(fs, BIN_DIR \o <<"busybox">>)
    /\ Access(fs, BIN_DIR \o <<"ssh">>)
    /\ Access(fs, BIN_DIR \o <<"ssh-keygen">>)
    /\ status = "JNI_FALSE"

\* C20: when extract_asset_file has reported success, the scratch file
\* holds the whole asset.
C20_CopyIsComplete ==
    (pc = "zip" /\ Succeeded("extract_asset_file")) =>
        Stat(fs, temp_zip_path).data = Copied(asset, AssetChunks)

----------------------------------------------------------------------------
(* Directory scaffolding on its own (specification SpecMkdir):             *)
(* create_directory_recursive is called twice in succession on a path.     *)

Names == {"a", "b"}

RECURSIVE PathsUpTo(_)
\* the absolute paths of at most n components
PathsUpTo(n) ==
    IF n = 0 THEN {<<>>}
    ELSE LET P == PathsUpTo(n - 1) IN P \cup {Append(q, c) : q \in P, c \in Names}

MkdirNodes ==
    {DirNode(Mode0700), FileNode(Mode0644, "old")} \cup {LinkNode(<<c>>) : c \in Names}

MkdirEntries == {Entry(q, n) : q \in PathsUpTo(MaxPathLen) \ {<<>>}, n \in MkdirNodes}

MkdirFS ==
    {AddEntries(RootFS, E) :
        E \in {X \in SmallSubsets(MkdirEntries, MaxPre) : Compatible(RootFS, X)}}

\* the paths given to the function: by the symmetry of the two names, those
\* whose first component is "a", and the root
MkdirArgs == {q \in PathsUpTo(MaxPathLen) : q = <<>> \/ q[1] = "a"}

InitMkdir ==
    /\ fs \in MkdirFS
    /\ arg \in MkdirArgs
    /\ fs0 = fs
    /\ fs1 = fs
    /\ pc = "mkdir"
    /\ ret = "none"
    /\ steps = <<>>
    /\ abi = "__aarch64__"
    /\ asset = Asset(FALSE, FALSE, << >>)
    /\ mgr = TRUE
    /\ umask \in Umasks
    /\ faults = {}
    /\ nfaults = 0
    /\ runs = 0
    /\ status = "none"
    /\ info = "none"
    /\ nopen = 0

MkdirFatal(f) ==
    {<<"strdup", arg>>} \cup {<<"mkdir", q>> : q \in Missing(f, Prefixes(arg))}

\* create_directory_recursive(arg, 0755) is called; the step records the
\* failures injected into this call
CallCreateDirectory ==
    /\ pc = "mkdir"
    /\ Len(steps) < 2
    /\ \E bad \in Choices(MkdirFatal(fs), {}) :
         LET r == create_directory_recursive(fs, arg, Mode0755, bad) IN
         /\ \A s \in bad : create_directory_recursive(fs, arg, Mode0755, bad \ {s}) # r
         /\ Inject(bad)
         /\ fs' = r.fs
         /\ fs1' = IF steps = <<>> THEN r.fs ELSE fs1
         /\ steps' = Append(steps, Step("create_directory_recursive", r.ret, bad))
    /\ UNCHANGED <<fs0, pc, ret, abi, asset, mgr, umask, runs, status, info, arg, nopen>>

NextMkdir == CallCreateDirectory

SpecMkdir == InitMkdir /\ [][NextMkdir]_vars

\* no component of path is occupied by anything but a directory
Unobstructed(f, path) == \A q \in Prefixes(path) : Kind(f, q) \in {"none", "dir"}

\* C8: scaffolding a path twice in succession succeeds both times (the
\* first call when no component is occupied by a non-directory and the
\* environment injects no failure, the second whenever the first succeeded
\* and its allocation does not fail) and the second call leaves the set of
\* directories, indeed the whole filesystem, as the first left it.
C8_ScaffoldingIdempotent ==
    /\ (Len(steps) >= 1 /\ Unobstructed(fs0, arg) /\ steps[1].log = {})
          => steps[1].ret = 0
    /\ (Len(steps) = 2 /\ steps[1].ret = 0 /\ steps[2].log = {})
          => /\ steps[2].ret = 0
             /\ Dirs(fs) = Dirs(fs1)
             /\ fs = fs1

C8_Witness ==
    /\ Len(steps) = 2
    /\ Len(arg) >= 2
    /\ steps[1].ret = 0 /\ steps[2].ret = 0
    /\ Dirs(fs1) # Dirs(fs0)
    /\ Dirs(fs) = Dirs(fs1)

\* C9 (as claimed): when scaffolding of a path returns success, every
\* component of the path, the last included, exists as a directory.
C9_SuccessMeansDirectories ==
    (Len(steps) >= 1 /\ steps[1].ret = 0) =>
        \A q \in Prefixes(arg) : Stat(fs1, q).kind = "dir"

----------------------------------------------------------------------------
(* Symlink-farm construction on its own (specification SpecFarm):          *)
(* setup_busybox_symlinks is called twice in succession.                   *)

\* what may occupy bin/<command> beforehand: nothing, a regular file, or a
\* symbolic link to the multi-call binary, to the SSH client (which exists)
\* or to toybox (which does not)
Occupants ==
    {"none", "file", "-> busybox", "-> ssh", "-> toybox"}

OccupantNode(o) ==
    IF o = "file" THEN FileNode(Mode0644, "old")
    ELSE IF o = "-> busybox" THEN LinkNode(<<"busybox">>)
    ELSE IF o = "-> ssh" THEN LinkNode(<<"ssh">>)
    ELSE LinkNode(<<"toybox">>)

BinFS == AddEntry(FilesFS, BIN_DIR \o <<"ssh">>, FileNode(Mode0755, "payload"), 1)

FarmFS ==
    { AddEntries(BinFS,
          {Entry(BIN_DIR \o <<commands[i]>>, OccupantNode(occ[i])) :
              i \in {j \in 1..Len(commands) : occ[j] # "none"}}
          \cup (IF bb = "none" THEN {} ELSE {Entry(busybox_path, OccupantNode(bb))})) :
        occ \in [1..Len(commands) -> Occupants],
        bb \in {"none", "file", "-> toybox"} }

InitFarm ==
    /\ fs \in FarmFS
    /\ arg = <<>>
    /\ fs0 = fs
    /\ fs1 = fs
    /\ pc = "farm"
    /\ ret = "none"
    /\ steps = <<>>
    /\ abi = "__aarch64__"
    /\ asset = Asset(FALSE, FALSE, << >>)
    /\ mgr = TRUE
    /\ umask = 63
    /\ faults = {}
    /\ nfaults = 0
    /\ runs = 0
    /\ status = "none"
    /\ info = "none"
    /\ nopen = 0

\* setup_busybox_symlinks is called; the step records its log
CallSetupSymlinks ==
    /\ pc = "farm"
    /\ Len(steps) < 2
    /\ \E bad \in Choices({}, SymlinkSites) :
         LET r == setup_busybox_symlinks(fs, bad) IN
         /\ \A s \in bad : setup_busybox_symlinks(fs, bad \ {s}) # r
         /\ Inject(bad)
         /\ fs' = r.fs
         /\ fs1' = IF steps = <<>> THEN r.fs ELSE fs1
         /\ steps' = Append(steps, Step("setup_busybox_symlinks", r.ret, r.log))
    /\ UNCHANGED <<fs0, pc, ret, abi, asset, mgr, umask, runs, status, info, arg, nopen>>

NextFarm == CallSetupSymlinks

SpecFarm == InitFarm /\ [][NextFarm]_vars

\* C6 (as claimed): with the multi-call binary present and no symlink call
\* failing in the environment, after the construction every manifest entry
\* is a symbolic link to busybox whatever occupied its path, and a second
\* construction produces the same result.
C6_FarmLinksEveryEntry ==
    (Len(steps) >= 1 /\ Access(fs0, busybox_path) /\ faults = {}) =>
        /\ steps[1].ret = 0
        /\ \A i \in 1..Len(commands) :
              LStat(fs, BIN_DIR \o <<commands[i]>>) = LinkNode(<<"busybox">>)
        /\ Len(steps) = 2 => fs = fs1

\* C7: with the multi-call binary absent, the construction returns failure,
\* creates no symbolic link and removes nothing: the filesystem is
\* unchanged and no entry was logged.
C7_FarmNeedsBusybox ==
    (Len(steps) >= 1 /\ ~Access(fs0, busybox_path)) =>
        /\ \A i \in 1..Len(steps) : steps[i].ret = -1 /\ steps[i].log = <<>>
        /\ fs = fs0

C7_Witness ==
    /\ Len(steps) >= 1
    /\ ~Access(fs0, busybox_path)
    /\ steps[1].ret = -1
    /\ LStat(fs0, BIN_DIR \o <<commands[1]>>).kind = "file"
    /\ LStat(fs0, BIN_DIR \o <<commands[2]>>).kind = "none"
    /\ fs = fs0

----------------------------------------------------------------------------
(* Re-invocation (specification SpecRerun): installBootstrap is called a   *)
(* second time after it returned true.                                     *)

\* the packaged archives of SpecRerun: those of Assets and one that holds
\* busybox alone (the other binaries of the table are optional)
RerunAssets ==
    Assets \cup {Asset(TRUE, TRUE, << <<"bin", "busybox">> >>)}

InitRerun ==
    /\ fs \in {RootFS, FilesFS, PreExtractedFS}
    /\ fs0 = fs
    /\ fs1 = fs
    /\ pc = "idle"
    /\ ret = "none"
    /\ steps = <<>>
    /\ abi = "__aarch64__"
    /\ asset \in RerunAssets
    /\ mgr = TRUE
    /\ umask \in Umasks
    /\ faults = {}
    /\ nfaults = 0
    /\ runs = 0
    /\ status = "none"
    /\ info = "none"
    /\ arg = <<>>
    /\ nopen = 0

\* installBootstrap is called again once it has returned true
CallAgain ==
    /\ pc = "returned"
    /\ ret = "JNI_TRUE"
    /\ runs = 1
    /\ runs' = runs + 1
    /\ pc' = "check"
    /\ mgr' \in BOOLEAN
    /\ fs0' = fs
    /\ steps' = <<>>
    /\ faults' = {}
    /\ ret' = "none"
    /\ status' = "none"
    /\ info' = "none"
    /\ UNCHANGED <<fs, fs1, abi, asset, umask, nfaults, arg, nopen>>

NextRerun ==
    \/ Next
    \/ CallAgain

SpecRerun == InitRerun /\ [][NextRerun]_vars

\* C11: an install invocation that follows one that returned true returns
\* true at the installed check: it calls no function of the pipeline and
\* leaves the filesystem as it found it.
C11_RerunIsNoOp ==
    runs = 2 =>
        /\ fs = fs0
        /\ steps = <<>>
        /\ pc \in {"check", "returned"}
        /\ pc = "returned" => ret = "JNI_TRUE"

----------------------------------------------------------------------------
(* Concurrent scaffolding (specification SpecScaffold): two invocations    *)
(* run setup_bootstrap_directories at the same time; each mkdir and each   *)
(* chmod is one step, and the steps of the two invocations interleave.     *)
(* pc, ret and arg hold one value per invocation; arg[p] is the position   *)
(* of invocation p in the two loops (directories[i], component j) and      *)
(* whether a mkdir of p has created a directory.                           *)

Procs == {1, 2}

\* one iteration of the loop of create_directory_recursive as
\* MkdirIterationStrict sees it: any failure of mkdir ends the call
MkdirIterationStrict(f, path, j, mode, bad) ==
    LET sub == SubSeq(path, 1, j)
        r == Mkdir(f, sub, mode, <<"mkdir", sub>> \in bad)
    IN  [ok |-> r.ret = 0, made |-> r.ret = 0, fs |-> r.fs]

\* one iteration of the loop of create_directory_recursive (and the mkdir
\* after the loop, j = Len(path)): mkdir of the first j components; the
\* call goes on unless mkdir failed with an errno other than EEXIST
MkdirIteration(f, path, j, mode, bad) ==
    LET sub == SubSeq(path, 1, j)
        r == Mkdir(f, sub, mode, <<"mkdir", sub>> \in bad)
    IN  [ok |-> ~(r.ret # 0 /\ r.errno # "EEXIST"), made |-> r.ret = 0, fs |-> r.fs]

\* the filesystems the two invocations may start in
ScaffoldFS ==
    { RootFS, FilesFS,
      AddEntry(FilesFS, VAR_EMPTY_DIR, DirNode(Mode0700), 1),
      AddEntry(FilesFS, BOOTSTRAP_PREFIX_DIR \o <<"etc">>, FileNode(Mode0644, "old"), 1) }

InitScaffold ==
    /\ fs \in ScaffoldFS
    /\ fs0 = fs
    /\ fs1 = fs
    /\ pc = [p \in Procs |-> "mkdir"]
    /\ ret = [p \in Procs |-> "none"]
    /\ arg = [p \in Procs |-> [i |-> 1, j |-> 1, made |-> FALSE]]
    /\ steps = <<>>
    /\ abi = "__aarch64__"
    /\ asset = Asset(FALSE, FALSE, << >>)
    /\ mgr = TRUE
    /\ umask \in Umasks
    /\ faults = {}
    /\ nfaults = 0
    /\ runs = 0
    /\ status = "none"
    /\ info = "none"
    /\ nopen = 0

\* an invocation calls mkdir once
ScaffoldMkdir ==
    \E p \in Procs :
        /\ pc[p] = "mkdir"
        /\ LET a == arg[p]
               path == directories[a.i]
               r == MkdirIteration(fs, path, a.j, Mode0755, {})
               made == a.made \/ r.made
           IN  /\ fs' = r.fs
               /\ IF ~r.ok
                  THEN /\ pc' = [pc EXCEPT ![p] = "done"]
                       /\ ret' = [ret EXCEPT ![p] = "-1"]
                       /\ arg' = [arg EXCEPT ![p].made = made]
                  ELSE IF a.j < Len(path)
                  THEN /\ arg' = [arg EXCEPT ![p] = [i |-> a.i, j |-> a.j + 1, made |-> made]]
                       /\ UNCHANGED <<pc, ret>>
                  ELSE IF a.i < Len(directories)
                  THEN /\ arg' = [arg EXCEPT ![p] = [i |-> a.i + 1, j |-> 1, made |-> made]]
                       /\ UNCHANGED <<pc, ret>>
                  ELSE /\ pc' = [pc EXCEPT ![p] = "chmod_ssh"]
                       /\ arg' = [arg EXCEPT ![p].made = made]
                       /\ UNCHANGED ret
        /\ UNCHANGED <<fs0, fs1, steps, abi, asset, mgr, umask, faults, nfaults, runs,
                       status, info, nopen>>

\* an invocation calls set_file_permissions on home/.ssh
ScaffoldChmodSsh ==
    \E p \in Procs :
        /\ pc[p] = "chmod_ssh"
        /\ fs' = set_file_permissions(fs, SSH_DIR, Mode0700, {}).fs
        /\ pc' = [pc EXCEPT ![p] = "chmod_empty"]
        /\ UNCHANGED <<fs0, fs1, ret, arg, steps, abi, asset, mgr, umask, faults, nfaults,
                       runs, status, info, nopen>>

\* an invocation calls set_file_permissions on var/empty and returns 0
ScaffoldChmodEmpty ==
    \E p \in Procs :
        /\ pc[p] = "chmod_empty"
        /\ fs' = set_file_permissions(fs, VAR_EMPTY_DIR, Mode0755, {}).fs
        /\ pc' = [pc EXCEPT ![p] = "done"]
        /\ ret' = [ret EXCEPT ![p] = "0"]
        /\ UNCHANGED <<fs0, fs1, arg, steps, abi, asset, mgr, umask, faults, nfaults,
                       runs, status, info, nopen>>

NextScaffold ==
    \/ ScaffoldMkdir
    \/ ScaffoldChmodSsh
    \/ ScaffoldChmodEmpty

SpecScaffold == InitScaffold /\ [][NextScaffold]_vars

\* C17: when scaffolding of the fixed tree succeeds for one invocation on
\* its own, two invocations whose mkdir calls interleave both return
\* success, and once both are done the directories that exist are those a
\* single run creates.
C17_ConcurrentScaffolding ==
    \A p \in Procs :
        pc[p] = "done" =>
            LET single == setup_bootstrap_directories(fs0, {}) IN
            single.ret = 0 =>
                /\ ret[p] = "0"
                /\ (\A q \in Procs : pc[q] = "done") => Dirs(fs) = Dirs(single.fs)

C17_Witness ==
    /\ \A p \in Procs : pc[p] = "done" /\ ret[p] = "0" /\ arg[p].made
    /\ Kind(fs0, FILES) = "none"
    /\ Dirs(fs) = Dirs(setup_bootstrap_directories(fs0, {}).fs)

----------------------------------------------------------------------------
(* Concurrent installation (specification SpecRace): two invocations of    *)
(* installBootstrap run at the same time on one filesystem, without        *)
(* environment failures.  Every call that touches the shared scratch path  *)
(* is one step: open, each write, the extraction, unlink.  The probes of   *)
(* the architecture and of the asset manager touch nothing shared and are  *)
(* left out.  pc, ret and arg hold one value per invocation.  arg[p] is:   *)
(*   k    the buffer invocation p writes next,                            *)
(*   fd   "live" when the descriptor of p is the file at the scratch path, *)
(*        "orphan" when that file was unlinked since p opened it,          *)
(*   ok   whether the extraction of p succeeded.                           *)
(* steps is the set of buffers the file at the scratch path holds: each    *)
(* write lands at the offset of its own descriptor.                        *)

\* the content of a scratch file that holds the buffers of chunks
Content(a, chunks) ==
    IF chunks = {} THEN ""
    ELSE IF chunks = 1..AssetChunks THEN Copied(a, AssetChunks)
    ELSE "trunc"

RaceAssets == {a \in Assets : a.valid /\ HoldsBinaries(a)}

InitRace ==
    /\ fs \in {RootFS, FilesFS}
    /\ fs0 = fs
    /\ fs1 = fs
    /\ pc = [p \in Procs |-> "check"]
    /\ ret = [p \in Procs |-> "none"]
    /\ arg = [p \in Procs |-> [k |-> 1, fd |-> "none", ok |-> FALSE]]
    /\ steps = {}
    /\ abi = "__aarch64__"
    /\ asset \in RaceAssets
    /\ mgr = TRUE
    /\ umask \in Umasks
    /\ faults = {}
    /\ nfaults = 0
    /\ runs = 0
    /\ status = "none"
    /\ info = "none"
    /\ nopen = 0

\* arg once the file at the scratch path has been unlinked: the descriptors
\* that were open on it no longer lead to what the path names
Orphaned ==
    [q \in Procs |-> [arg[q] EXCEPT !.fd = IF @ = "live" THEN "orphan" ELSE @]]

\* installBootstrap, "Check if already installed"
RaceCheck ==
    \E p \in Procs :
        /\ pc[p] = "check"
        /\ IF is_bootstrap_installed(fs) # 0
           THEN pc' = [pc EXCEPT ![p] = "done"] /\ ret' = [ret EXCEPT ![p] = "JNI_TRUE"]
           ELSE pc' = [pc EXCEPT ![p] = "dirs"] /\ ret' = ret
        /\ UNCHANGED <<fs, fs0, fs1, arg, steps, abi, asset, mgr, umask, faults, nfaults,
                       runs, status, info, nopen>>

\* installBootstrap, "Setup directories"
RaceDirs ==
    \E p \in Procs :
        /\ pc[p] = "dirs"
        /\ LET r == setup_bootstrap_directories(fs, {}) IN
           /\ fs' = r.fs
           /\ IF r.ret # 0
              THEN pc' = [pc EXCEPT ![p] = "done"] /\ ret' = [ret EXCEPT ![p] = "JNI_FALSE"]
              ELSE pc' = [pc EXCEPT ![p] = "open"] /\ ret' = ret
        /\ UNCHANGED <<fs0, fs1, arg, steps, abi, asset, mgr, umask, faults, nfaults,
                       runs, status, info, nopen>>

\* extract_asset_file up to its call of open: the asset is opened, the
\* directory of the scratch file is created, the scratch file is created
\* or truncated
RaceOpen ==
    \E p \in Procs :
        /\ pc[p] = "open"
        /\ LET d == create_directory_recursive(fs, Parent(temp_zip_path), Mode0755, {})
               o == OpenTrunc(d.fs, temp_zip_path, Mode0644, FALSE)
           IN  IF ~asset.present \/ d.ret # 0 \/ o.ret # 0
               THEN /\ fs' = d.fs
                    /\ pc' = [pc EXCEPT ![p] = "done"]
                    /\ ret' = [ret EXCEPT ![p] = "JNI_FALSE"]
                    /\ UNCHANGED <<arg, steps>>
               ELSE /\ fs' = o.fs
                    /\ steps' = {}
                    /\ arg' = [arg EXCEPT ![p].k = 1, ![p].fd = "live"]
                    /\ pc' = [pc EXCEPT ![p] = "write"]
                    /\ ret' = ret
        /\ UNCHANGED <<fs0, fs1, abi, asset, mgr, umask, faults, nfaults, runs, status,
                       info, nopen>>

\* extract_asset_file, one pass of the read/write loop; after the last
\* buffer the descriptor and the asset are closed and the call returns 0
RaceWrite ==
    \E p \in Procs :
        /\ pc[p] = "write"
        /\ LET k == arg[p].k
               chunks == IF arg[p].fd = "live" THEN steps \cup {k} ELSE steps
           IN  /\ steps' = chunks
               /\ fs' = IF arg[p].fd = "live"
                        THEN WriteData(fs, temp_zip_path, Content(asset, chunks))
                        ELSE fs
               /\ IF k < AssetChunks
                  THEN /\ arg' = [arg EXCEPT ![p].k = k + 1]
                       /\ pc' = pc
                  ELSE /\ arg' = [arg EXCEPT ![p].fd = "none"]
                       /\ pc' = [pc EXCEPT ![p] = "unzip"]
        /\ UNCHANGED <<fs0, fs1, ret, abi, asset, mgr, umask, faults, nfaults, runs,
                       status, info, nopen>>

\* installBootstrap, "Extract ZIP to prefix directory"
RaceUnzip ==
    \E p \in Procs :
        /\ pc[p] = "unzip"
        /\ LET r == extract_bootstrap_zip(fs, asset, temp_zip_path, BOOTSTRAP_PREFIX_DIR, {})
           IN  /\ fs' = r.fs
               /\ arg' = [arg EXCEPT ![p].ok = (r.ret = 0)]
        /\ pc' = [pc EXCEPT ![p] = "unlink"]
        /\ UNCHANGED <<fs0, fs1, ret, steps, abi, asset, mgr, umask, faults, nfaults,
                       runs, status, info, nopen>>

\* installBootstrap, unlink(temp_zip_path) after the extraction, failed or
\* not; a failed extraction returns false
RaceUnlink ==
    \E p \in Procs :
        /\ pc[p] = "unlink"
        /\ LET u == Unlink(fs, temp_zip_path) IN
           /\ fs' = u.fs
           /\ steps' = IF u.ret = 0 THEN {} ELSE steps
           /\ arg' = IF u.ret = 0 THEN Orphaned ELSE arg
        /\ IF arg[p].ok
           THEN pc' = [pc EXCEPT ![p] = "perms"] /\ ret' = ret
           ELSE pc' = [pc EXCEPT ![p] = "done"] /\ ret' = [ret EXCEPT ![p] = "JNI_FALSE"]
        /\ UNCHANGED <<fs0, fs1, abi, asset, mgr, umask, faults, nfaults, runs, status,
                       info, nopen>>

\* installBootstrap, "Set binary permissions"
RacePerms ==
    \E p \in Procs :
        /\ pc[p] = "perms"
        /\ LET r == setup_binary_permissions(fs, {}) IN
           /\ fs' = r.fs
           /\ IF r.ret # 0
              THEN pc' = [pc EXCEPT ![p] = "done"] /\ ret' = [ret EXCEPT ![p] = "JNI_FALSE"]
              ELSE pc' = [pc EXCEPT ![p] = "symlinks"] /\ ret' = ret
        /\ UNCHANGED <<fs0, fs1, arg, steps, abi, asset, mgr, umask, faults, nfaults,
                       runs, status, info, nopen>>

\* installBootstrap, "Setup busybox symlinks"
RaceSymlinks ==
    \E p \in Procs :
        /\ pc[p] = "symlinks"
        /\ LET r == setup_busybox_symlinks(fs, {}) IN
           /\ fs' = r.fs
           /\ IF r.ret # 0
              THEN pc' = [pc EXCEPT ![p] = "done"] /\ ret' = [ret EXCEPT ![p] = "JNI_FALSE"]
              ELSE pc' = [pc EXCEPT ![p] = "config"] /\ ret' = ret
        /\ UNCHANGED <<fs0, fs1, arg, steps, abi, asset, mgr, umask, faults, nfaults,
                       runs, status, info, nopen>>

\* installBootstrap, "Setup configuration files" and the final return
RaceConfig ==
    \E p \in Procs :
        /\ pc[p] = "config"
        /\ LET r == setup_configuration_files(fs, {}) IN
           /\ fs' = r.fs
           /\ ret' = [ret EXCEPT ![p] = IF r.ret # 0 THEN "JNI_FALSE" ELSE "JNI_TRUE"]
        /\ pc' = [pc EXCEPT ![p] = "done"]
        /\ UNCHANGED <<fs0, fs1, arg, steps, abi, asset, mgr, umask, faults, nfaults,
                       runs, status, info, nopen>>

NextRace ==
    \/ RaceCheck
    \/ RaceDirs
    \/ RaceOpen
    \/ RaceWrite
    \/ RaceUnzip
    \/ RaceUnlink
    \/ RacePerms
    \/ RaceSymlinks
    \/ RaceConfig

SpecRace == InitRace /\ [][NextRace]_vars

\* C19: of two concurrent invocations on a filesystem that is not installed
\* yet, with a valid archive, each finds its scratch archive whole when it
\* comes to extract it, and neither returns false.
C19_ScratchUndisturbed ==
    \A p \in Procs :
        /\ pc[p] = "unzip" => Stat(fs, temp_zip_path).data = "zip"
        /\ pc[p] = "done" => ret[p] = "JNI_TRUE"

====
